---- MODULE Spec2Model ----
(***************************************************************************)
(* A model of pymatgen.symmetry.finder.SymmetryFinder: one analysis        *)
(* session over one structure, the calls it makes to the spglib oracle,    *)
(* and the classification and selection functions built on the stored      *)
(* space-group string.                                                     *)
(*                                                                         *)
(* Conventions.  A numpy array is a sequence.  A string is a sequence of   *)
(* one-character strings, so that split(), re.sub and int() are computed.  *)
(* A fractional coordinate is one integer token.  An argument handed to    *)
(* the oracle is a record [val, owner]: owner "session" is the session's   *)
(* own array object, owner "call" an array allocated by the calling        *)
(* method (a .copy() or an np.zeros buffer).                               *)
(***************************************************************************)
EXTENDS Integers, Sequences, FiniteSets, TLC

VARIABLES
    structure,          \* the Structure handed to __init__
    oracle,             \* the behaviour of the spglib build in use
    pc,                 \* "new" | "analyzed" | "failed"
    error,              \* the exception __init__ ended with, or "none"
    _symprec,
    _angle_tol,
    _structure,
    _transposed_latt,
    _positions,
    _numbers,
    _unique_species,
    _spacegroup_data,
    snap,               \* the session fields as __init__ left them
    last_call,          \* the latest oracle call: its name, its arguments' owners
    ret,                \* the latest query and the value it returned
    memo                \* one earlier query and its value, kept for comparison

vars == <<structure, oracle, pc, error, _symprec, _angle_tol, _structure,
          _transposed_latt, _positions, _numbers, _unique_species,
          _spacegroup_data, snap, last_call, ret, memo>>

session == <<_symprec, _angle_tol, _structure, _transposed_latt, _positions,
             _numbers, _unique_species, _spacegroup_data>>

(***************************************************************************)
(* Bounds                                                                  *)
(***************************************************************************)
MaxSites == 3
MaxKpoints == 4

(***************************************************************************)
(* Sequences, matrices, strings                                            *)
(***************************************************************************)
Min(a, b) == IF a <= b THEN a ELSE b

Range(s) == {s[i] : i \in DOMAIN s}

Repeat(x, n) == [i \in 1..n |-> x]

\* a[:n] of Python for 0 <= n
Take(s, n) == SubSeq(s, 1, Min(n, Len(s)))

\* buf[:n] = src: the first n slots overwritten, the rest kept
Overwrite(buf, src) ==
    [i \in 1..Len(buf) |-> IF i <= Len(src) THEN src[i] ELSE buf[i]]

Transpose(m) == [i \in 1..3 |-> [j \in 1..3 |-> m[j][i]]]

Contains(s, ch) == \E i \in DOMAIN s : s[i] = ch

StartsWith(s, ch) == Len(s) > 0 /\ s[1] = ch

DigitChars == <<"0", "1", "2", "3", "4", "5", "6", "7", "8", "9">>

IsDigit(ch) == \E i \in DOMAIN DigitChars : DigitChars[i] = ch

DigitValue(ch) == (CHOOSE i \in DOMAIN DigitChars : DigitChars[i] = ch) - 1

\* str.split(): the maximal runs of non-blank characters
RECURSIVE SplitFrom(_, _, _)
SplitFrom(s, cur, acc) ==
    IF s = <<>> THEN (IF cur = <<>> THEN acc ELSE Append(acc, cur))
    ELSE IF Head(s) = " "
         THEN SplitFrom(Tail(s), <<>>, IF cur = <<>> THEN acc ELSE Append(acc, cur))
         ELSE SplitFrom(Tail(s), Append(cur, Head(s)), acc)

Split(s) == SplitFrom(s, <<>>, <<>>)

\* re.sub("\D", "", s)
StripNonDigits(s) == SelectSeq(s, IsDigit)

\* int(s) of a string of decimal digits
RECURSIVE ParseInt(_, _)
ParseInt(s, acc) ==
    IF s = <<>> THEN acc ELSE ParseInt(Tail(s), 10 * acc + DigitValue(Head(s)))

\* "%d" of a natural number
RECURSIVE FormatInt(_)
FormatInt(n) ==
    IF n < 10 THEN <<DigitChars[n + 1]>>
    ELSE Append(FormatInt(n \div 10), DigitChars[(n % 10) + 1])

(***************************************************************************)
(* Structures                                                              *)
(***************************************************************************)
Species == {"Fe", "O"}

\* the order in which get_sorted_structure puts the species
SpeciesRank(sp) == IF sp = "Fe" THEN 1 ELSE 2

Lattices == { <<<<1, 2, 0>>, <<0, 1, 0>>, <<3, 0, 1>>>> }

Site(sp, fc) == [species_and_occu |-> sp, frac_coords |-> fc]

\* Structure(lattice, species, coords): one site per species entry
Structure(lattice, species, coords) ==
    [lattice |-> lattice,
     sites |-> [i \in 1..Len(species) |-> Site(species[i], coords[i])]]

\* the structures of n sites; site i carries the coordinate token i
StructuresOfSize(n) ==
    { [lattice |-> l, sites |-> [i \in 1..n |-> Site(sp[i], i)]] :
        l \in Lattices, sp \in [1..n -> Species] }

Structures == UNION { StructuresOfSize(n) : n \in 0..MaxSites }

NumSites(s) == Len(s.sites)

\* a stable sort of the sites by species
RECURSIVE InsertSite(_, _)
InsertSite(sorted, s) ==
    IF sorted = <<>> THEN <<s>>
    ELSE IF SpeciesRank(s.species_and_occu) < SpeciesRank(Head(sorted).species_and_occu)
         THEN <<s>> \o sorted
         ELSE <<Head(sorted)>> \o InsertSite(Tail(sorted), s)

RECURSIVE SortSites(_, _)
SortSites(sites, acc) ==
    IF sites = <<>> THEN acc ELSE SortSites(Tail(sites), InsertSite(acc, Head(sites)))

GetSortedStructure(s) == [lattice |-> s.lattice, sites |-> SortSites(s.sites, <<>>)]

(***************************************************************************)
(* The spglib oracle (pymatgen._spglib).  Every operation is a function of  *)
(* the arrays it is given and of the build's behaviour `oracle`; it returns *)
(* its value and the contents of each buffer as the call leaves it.         *)
(***************************************************************************)
\* "%s (%d)": the string spg.spacegroup answers with
SpgFormat(symbol, number) == symbol \o <<" ", "(">> \o FormatInt(number) \o <<")">>

RotateRows(m) == <<m[2], m[3], m[1]>>

SpgSpacegroup(lattice, positions, numbers, symprec, angle_tol, o) ==
    [raises |-> o.raises, value |-> SpgFormat(o.symbol, o.number),
     lattice |-> lattice, positions |-> positions, numbers |-> numbers]

\* rotation and translation are output buffers: the first `value` slots are written
SpgSymmetry(rotation, translation, lattice, positions, numbers, symprec, angle_tol, o) ==
    LET count == Min(Len(rotation), 12 * o.seed) IN
    [value |-> count,
     rotation |-> Overwrite(rotation, [i \in 1..count |-> i]),
     translation |-> Overwrite(translation, [i \in 1..count |-> 100 + i]),
     lattice |-> lattice, positions |-> positions, numbers |-> numbers]

SpgDataset(lattice, positions, numbers, symprec, angle_tol, o) ==
    LET n == Len(numbers) IN
    [value |->
        [number |-> o.number, international |-> o.symbol \o <<" ", " ">>,
         hall |-> <<"P", " ", "1", " ">>,
         rotations |-> [i \in 1..Min(2, n) |-> i],
         translations |-> [i \in 1..Min(2, n) |-> 100 + i],
         wyckoffs |-> [i \in 1..n |-> (numbers[i] + o.seed) % 52],
         equivalent_atoms |->
            [i \in 1..n |-> (CHOOSE j \in 1..n :
                /\ numbers[j] = numbers[i]
                /\ \A k \in 1..(j - 1) : numbers[k] # numbers[i]) - 1]],
     lattice |-> lattice, positions |-> positions, numbers |-> numbers]

\* overwrites lattice, positions and numbers with the primitive cell; 0: none found
SpgPrimitive(lattice, positions, numbers, symprec, angle_tol, o) ==
    LET n == Len(numbers)
        count == o.seed % (n + 1)
    IN  IF count = 0
        THEN [value |-> 0, lattice |-> lattice, positions |-> positions,
              numbers |-> numbers]
        ELSE [value |-> count,
              lattice |-> RotateRows(lattice),
              positions |-> Overwrite(positions,
                              [i \in 1..count |-> positions[n - count + i] + 100]),
              numbers |-> Overwrite(numbers,
                              [i \in 1..count |-> numbers[n - count + i]])]

\* positions and numbers hold 4 * num_atom slots, the first num_atom the input atoms
SpgRefineCell(lattice, positions, numbers, num_atom, symprec, angle_tol, o) ==
    LET count == o.seed % (Len(numbers) + 1)
        src(i) == ((i - 1) % num_atom) + 1
        img(i) == ((i - 1) \div num_atom) + 1
    IN  IF count = 0
        THEN [value |-> 0, lattice |-> lattice, positions |-> positions,
              numbers |-> numbers]
        ELSE [value |-> count,
              lattice |-> RotateRows(lattice),
              positions |-> Overwrite(positions,
                              [i \in 1..count |-> positions[src(i)] + 100 * img(i)]),
              numbers |-> Overwrite(numbers, [i \in 1..count |-> numbers[src(i)]])]

\* mapping is an output buffer: entry i becomes the index of k-point i's representative
SpgIrKpoints(mapping, kpoints, lattice, positions, numbers, is_time_reversal, symprec, o) ==
    [value |-> Cardinality(Range(o.kmap)), mapping |-> Overwrite(mapping, o.kmap),
     lattice |-> lattice, positions |-> positions, numbers |-> numbers]

(***************************************************************************)
(* Array objects and who owns them                                         *)
(***************************************************************************)
Own(v) == [val |-> v, owner |-> "session"]

Copy(v) == [val |-> v, owner |-> "call"]

\* what a session array holds after the oracle wrote `written` into argument arg
Writeback(arg, written, current) ==
    IF arg.owner = "session" THEN written ELSE current

\* the record of one oracle call: its arguments' owners, the coordinate and species
\* arrays as handed over, the length of its output buffers, the value it returned
Call(op, lattice, positions, numbers, cap, value) ==
    [op |-> op, lattice |-> lattice.owner, positions |-> positions.owner,
     numbers |-> numbers.owner, pos_in |-> positions.val, num_in |-> numbers.val,
     cap |-> cap, value |-> value]

NoCall == [op |-> "none", lattice |-> "call", positions |-> "call",
           numbers |-> "call", pos_in |-> <<>>, num_in |-> <<>>, cap |-> 0,
           value |-> 0]

(***************************************************************************)
(* SymmetryFinder.__init__                                                 *)
(***************************************************************************)
\* itertools.groupby(structure, key=species_and_occu): the consecutive runs
RECURSIVE GroupBy(_, _)
GroupBy(sites, runs) ==
    IF sites = <<>> THEN runs
    ELSE LET k == Head(sites).species_and_occu IN
         IF runs # <<>> /\ runs[Len(runs)].key = k
         THEN GroupBy(Tail(sites), [runs EXCEPT ![Len(runs)].g = @ + 1])
         ELSE GroupBy(Tail(sites), Append(runs, [key |-> k, g |-> 1]))

\* list.index(x), 0-based; -1 stands for its ValueError
ListIndex(list, x) ==
    IF \E i \in DOMAIN list : list[i] = x
    THEN (CHOOSE i \in DOMAIN list :
            list[i] = x /\ \A j \in 1..(i - 1) : list[j] # x) - 1
    ELSE -1

\* the loop body of __init__ over the runs, with the lookup replaced by an append
RECURSIVE IndexRunsNoLookup(_, _, _)
IndexRunsNoLookup(runs, unique_species, zs) ==
    IF runs = <<>> THEN [unique_species |-> unique_species, zs |-> zs]
    ELSE LET us == Append(unique_species, Head(runs).key) IN
         IndexRunsNoLookup(Tail(runs), us, zs \o Repeat(Len(us), Head(runs).g))

\* the loop of __init__ over the runs
RECURSIVE IndexRuns(_, _, _)
IndexRuns(runs, unique_species, zs) ==
    IF runs = <<>> THEN [unique_species |-> unique_species, zs |-> zs]
    ELSE LET species == Head(runs).key
             g == Head(runs).g
             ind == ListIndex(unique_species, species)
         IN  IF ind >= 0
             THEN IndexRuns(Tail(runs), unique_species, zs \o Repeat(ind + 1, g))
             ELSE LET us == Append(unique_species, species) IN
                  IndexRuns(Tail(runs), us, zs \o Repeat(Len(us), g))

SpeciesIndexingNoLookup(sites) == IndexRunsNoLookup(GroupBy(sites, <<>>), <<>>, <<>>)

SpeciesIndexing(sites) == IndexRuns(GroupBy(sites, <<>>), <<>>, <<>>)

\* the arrays __init__ hands to spg.spacegroup
InitOracleArgs(latt, positions, numbers) ==
    [lattice |-> Copy(latt), positions |-> Copy(positions), numbers |-> Own(numbers)]

Construct ==
    /\ pc = "new"
    /\ LET latt == Transpose(structure.lattice)
           positions == [i \in 1..NumSites(structure) |-> structure.sites[i].frac_coords]
           idx == SpeciesIndexing(structure.sites)
           a == InitOracleArgs(latt, positions, idx.zs)
           out == SpgSpacegroup(a.lattice.val, a.positions.val, a.numbers.val,
                                1, 5, oracle)
           fields == <<1, 5, structure,
                       Writeback(a.lattice, out.lattice, latt),
                       Writeback(a.positions, out.positions, positions),
                       Writeback(a.numbers, out.numbers, idx.zs),
                       idx.unique_species,
                       IF out.raises THEN <<>> ELSE out.value>>
       IN  /\ _symprec' = fields[1]
           /\ _angle_tol' = fields[2]
           /\ _structure' = fields[3]
           /\ _transposed_latt' = fields[4]
           /\ _positions' = fields[5]
           /\ _numbers' = fields[6]
           /\ _unique_species' = fields[7]
           /\ _spacegroup_data' = fields[8]
           /\ snap' = fields
           /\ last_call' = Call("spacegroup", a.lattice, a.positions, a.numbers, 0,
                                IF out.raises THEN <<>> ELSE out.value)
           /\ error' = IF out.raises THEN "OracleError" ELSE "none"
           /\ pc' = IF out.raises THEN "failed" ELSE "analyzed"
    /\ UNCHANGED <<structure, oracle, ret, memo>>

(***************************************************************************)
(* Queries on an analyzed session                                          *)
(***************************************************************************)
NoResult == [q |-> "none", val |-> <<>>, other |-> FALSE]

\* the query returns val.  memo, while it holds no call, may keep this one; once it
\* holds one, it notes whether a different query has been made since
Return(q, val) ==
    \E r \in {[q |-> q, val |-> val, other |-> FALSE]} :
        /\ ret' = r
        /\ memo' \in (IF memo.q = "none" THEN {memo, r}
                       ELSE {[memo EXCEPT !.other = @ \/ memo.q # q]})

\* the session arrays once the oracle has returned from a call with arguments a
AfterCall(op, a, cap, out) ==
    /\ _transposed_latt' = Writeback(a.lattice, out.lattice, _transposed_latt)
    /\ _positions' = Writeback(a.positions, out.positions, _positions)
    /\ _numbers' = Writeback(a.numbers, out.numbers, _numbers)
    /\ last_call' = Call(op, a.lattice, a.positions, a.numbers, cap, out.value)
    /\ UNCHANGED <<_symprec, _angle_tol, _structure, _unique_species, _spacegroup_data>>

Frame == UNCHANGED <<structure, oracle, pc, error, snap>>

\* list[k] of Python for an integer k: a negative k counts from the end
PyGet(list, k) ==
    IF 0 <= k /\ k < Len(list) THEN list[k + 1]
    ELSE IF k < 0 /\ -k <= Len(list) THEN list[Len(list) + k + 1]
    ELSE "IndexError"

get_spacegroup_symbol == PyGet(Split(_spacegroup_data), 0)

get_spacegroup_number ==
    ParseInt(StripNonDigits(PyGet(Split(_spacegroup_data), -1)), 0)

letters ==
    <<"a", "b", "c", "d", "e", "f", "g", "h", "i", "j", "k", "l", "m",
      "n", "o", "p", "q", "r", "s", "t", "u", "v", "w", "x", "y", "z",
      "A", "B", "C", "D", "E", "F", "G", "H", "I", "J", "K", "L", "M",
      "N", "O", "P", "Q", "R", "S", "T", "U", "V", "W", "X", "Y", "Z">>

\* str.strip()
RECURSIVE LStrip(_)
LStrip(s) == IF s # <<>> /\ Head(s) = " " THEN LStrip(Tail(s)) ELSE s

RECURSIVE RStrip(_)
RStrip(s) ==
    IF s # <<>> /\ s[Len(s)] = " " THEN RStrip(SubSeq(s, 1, Len(s) - 1)) ELSE s

Strip(s) == RStrip(LStrip(s))

DatasetArgs == [lattice |-> Copy(_transposed_latt), positions |-> Own(_positions),
                numbers |-> Own(_numbers)]

GetSymmetryDataset ==
    /\ pc = "analyzed"
    /\ \E a \in {DatasetArgs} :
       \E out \in {SpgDataset(a.lattice.val, a.positions.val, a.numbers.val,
                               _symprec, _angle_tol, oracle)} :
           /\ AfterCall("dataset", a, 0, out)
           /\ Return("get_symmetry_dataset",
                     [out.value EXCEPT !.international = Strip(@), !.hall = Strip(@),
                               !.wyckoffs = [i \in DOMAIN @ |-> letters[@[i] + 1]]])
    /\ Frame

SymmetryArgs == [lattice |-> Copy(_transposed_latt), positions |-> Own(_positions),
                 numbers |-> Own(_numbers)]

\* _get_symmetry's return with the slices left out
SymmetryResultWhole(out) ==
    [rotation |-> out.rotation, translation |-> out.translation]

\* rotation[:num_sym], translation[:num_sym]
SymmetryResult(out) ==
    [rotation |-> Take(out.rotation, out.value),
     translation |-> Take(out.translation, out.value)]

\* the oracle call of _get_symmetry, on buffers of 48 * num_sites zeroed slots
SymmetryCall(a) ==
    LET multi == 48 * NumSites(_structure) IN
    SpgSymmetry(Repeat(0, multi), Repeat(0, multi), a.lattice.val, a.positions.val,
                a.numbers.val, _symprec, _angle_tol, oracle)

GetSymmetry ==
    /\ pc = "analyzed"
    /\ \E a \in {SymmetryArgs} : \E out \in {SymmetryCall(a)} :
           /\ AfterCall("symmetry", a, Len(out.rotation), out)
           /\ Return("_get_symmetry", SymmetryResult(out))
    /\ Frame

\* zip(rotation, translation) turned into SymmOp objects (cartesian=False)
SymmOps(r) ==
    [i \in 1..Min(Len(r.rotation), Len(r.translation)) |->
        [rot |-> r.rotation[i], trans |-> r.translation[i]]]

GetSymmetryOperations ==
    /\ pc = "analyzed"
    /\ \E a \in {SymmetryArgs} : \E out \in {SymmetryCall(a)} :
           /\ AfterCall("symmetry", a, Len(out.rotation), out)
           /\ Return("get_symmetry_operations", SymmOps(SymmetryResult(out)))
    /\ Frame

\* [self._unique_species[i - 1] for i in zs]
SpeciesOf(zs) == [j \in 1..Len(zs) |-> PyGet(_unique_species, zs[j] - 1)]

\* lattice, pos and numbers as get_refined_structure allocates them
RefineArgs ==
    LET num_atom == NumSites(_structure) IN
    [lattice |-> Copy(_transposed_latt),
     positions |-> Copy(Overwrite(Repeat(0, num_atom * 4), _positions)),
     numbers |-> Copy(Overwrite(Repeat(0, num_atom * 4), _numbers))]

GetRefinedStructure ==
    /\ pc = "analyzed"
    /\ \E a \in {RefineArgs} :
       \E out \in {SpgRefineCell(a.lattice.val, a.positions.val, a.numbers.val,
                                  NumSites(_structure), _symprec, _angle_tol, oracle)} :
       LET num_atom_bravais == out.value
           zs == Take(out.numbers, num_atom_bravais)
           s == Structure(Transpose(out.lattice), SpeciesOf(zs),
                          Take(out.positions, num_atom_bravais))
       IN  /\ AfterCall("refine_cell", a, Len(out.positions), out)
           /\ Return("get_refined_structure", GetSortedStructure(s))
    /\ Frame

\* find_primitive handing the session's own arrays to the oracle
FindPrimitiveArgsNoCopy ==
    [lattice |-> Own(_transposed_latt), positions |-> Own(_positions),
     numbers |-> Own(_numbers)]

FindPrimitiveArgs ==
    [lattice |-> Copy(_transposed_latt), positions |-> Copy(_positions),
     numbers |-> Copy(_numbers)]

FindPrimitive ==
    /\ pc = "analyzed"
    /\ \E a \in {FindPrimitiveArgs} :
       \E out \in {SpgPrimitive(a.lattice.val, a.positions.val, a.numbers.val,
                                 _symprec, _angle_tol, oracle)} :
       LET num_atom_prim == out.value
           zs == Take(out.numbers, num_atom_prim)
           species == SpeciesOf(zs)
       IN  /\ AfterCall("primitive", a, Len(out.positions), out)
           /\ Return("find_primitive",
                     IF num_atom_prim > 0
                     THEN Structure(Transpose(out.lattice), species,
                                    Take(out.positions, num_atom_prim))
                     ELSE _structure)
    /\ Frame

\* the k-point list handed to the k-point queries: the one oracle.kmap answers for
Kpoints == [j \in 1..Len(oracle.kmap) |-> 10 + j]

IrKpointsArgs ==
    [lattice |-> Copy(_transposed_latt), positions |-> Copy(_positions),
     numbers |-> Copy(_numbers)]

\* get_ir_kpoints_mapping(kpoints) with is_time_reversal=True
IrKpointsMapping(kpoints, a) ==
    SpgIrKpoints(Repeat(0, Len(kpoints)), kpoints, a.lattice.val, a.positions.val,
                 a.numbers.val, 1, _symprec, oracle)

GetIrKpointsMapping ==
    /\ pc = "analyzed"
    /\ \E a \in {IrKpointsArgs} : \E out \in {IrKpointsMapping(Kpoints, a)} :
           /\ AfterCall("ir_kpoints", a, Len(out.mapping), out)
           /\ Return("get_ir_kpoints_mapping", out.mapping)
    /\ Frame

\* the loop of get_ir_kpoints from entry j on (entry j is Python's i = j - 1)
RECURSIVE IrKpointsLoop(_, _, _, _, _)
IrKpointsLoop(j, kpoints, mapping, irr_kpts, n) ==
    IF j > Len(kpoints) THEN irr_kpts
    ELSE IF mapping[j] \notin Range(n)
         THEN IrKpointsLoop(j + 1, kpoints, mapping,
                            Append(irr_kpts, kpoints[j]), Append(n, j - 1))
         ELSE IrKpointsLoop(j + 1, kpoints, mapping, irr_kpts, n)

GetIrKpoints ==
    /\ pc = "analyzed"
    /\ \E a \in {IrKpointsArgs} : \E out \in {IrKpointsMapping(Kpoints, a)} :
           /\ AfterCall("ir_kpoints", a, Len(out.mapping), out)
           /\ Return("get_ir_kpoints",
                     IrKpointsLoop(1, Kpoints, out.mapping, <<>>, <<>>))
    /\ Frame

(***************************************************************************)
(* Classification by space-group number and symbol                         *)
(***************************************************************************)
\* the table cs with the trigonal range running one number too far
cs_overlapping ==
    [triclinic |-> <<1, 2>>, monoclinic |-> <<3, 15>>, orthorhombic |-> <<16, 74>>,
     tetragonal |-> <<75, 142>>, trigonal |-> <<143, 168>>, hexagonal |-> <<168, 194>>,
     cubic |-> <<195, 230>>]

\* the dict cs of get_crystal_system
cs ==
    [triclinic |-> <<1, 2>>, monoclinic |-> <<3, 15>>, orthorhombic |-> <<16, 74>>,
     tetragonal |-> <<75, 142>>, trigonal |-> <<143, 167>>, hexagonal |-> <<168, 194>>,
     cubic |-> <<195, 230>>]

\* f(*v) for n: i <= n <= j
InRange(n, v) == v[1] <= n /\ n <= v[2]

\* What the loop of get_crystal_system can end with.  cs.items() is iterated in an
\* order the interpreter chooses and the loop stops at the first key whose range
\* holds n: any key whose range holds n can be that one, and "None" is returned
\* when no range holds n.
CrystalSystems(n) ==
    LET hits == {k \in DOMAIN cs : InRange(n, cs[k])} IN
    IF hits = {} THEN {"None"} ELSE hits

\* the list of get_lattice_type without its last number
RhombohedralNumbersShort == {146, 148, 155, 160, 161, 166}

\* the list of get_lattice_type
RhombohedralNumbers == {146, 148, 155, 160, 161, 166, 167}

\* get_lattice_type without the branch of line 180
LatticeTypeNoHexagonal(n, system) ==
    IF n \in RhombohedralNumbers THEN "rhombohedral" ELSE system

LatticeType(n, system) ==
    IF n \in RhombohedralNumbers THEN "rhombohedral"
    ELSE IF system = "trigonal" THEN "hexagonal"
    ELSE system

\* a pure query: it returns val and touches nothing
Answer(q, val) ==
    /\ ret' = [q |-> q, val |-> val, other |-> FALSE]
    /\ UNCHANGED <<structure, oracle, pc, error, snap, last_call, memo>>
    /\ UNCHANGED session

GetSpacegroupSymbol ==
    /\ pc = "analyzed"
    /\ Answer("get_spacegroup_symbol", get_spacegroup_symbol)

GetSpacegroupNumber ==
    /\ pc = "analyzed"
    /\ Answer("get_spacegroup_number", get_spacegroup_number)

GetCrystalSystem ==
    /\ pc = "analyzed"
    /\ \E crystal_sytem \in CrystalSystems(get_spacegroup_number) :
          Answer("get_crystal_system", crystal_sytem)

GetLatticeType ==
    /\ pc = "analyzed"
    /\ \E system \in CrystalSystems(get_spacegroup_number) :
          Answer("get_lattice_type", LatticeType(get_spacegroup_number, system))

(***************************************************************************)
(* Cells in geometric detail, as the standard-cell methods read them.  A   *)
(* lattice is its lengths_and_angles: abc in length units of 5e-6 and      *)
(* angles in degrees.  A fractional coordinate is a triple counted in      *)
(* halves, so that to_unit_cell is the remainder modulo 2.  A matrix       *)
(* applied to fractional coordinates is a 3x3 matrix of integers.          *)
(***************************************************************************)
\* tol = 1e-5, in length units
tol == 2

\* the 0.001 of the hexagonal branch, in length units
hex_tol == 200

Abs(x) == IF x < 0 THEN -x ELSE x

GeoLattice(abc, angles) == [abc |-> abc, angles |-> angles]

NoLattice == GeoLattice(<<0, 0, 0>>, <<0, 0, 0>>)

\* the angle between rows i and j: alpha lies between rows 2 and 3, beta between
\* rows 1 and 3, gamma between rows 1 and 2
Angle(l, i, j) == l.angles[6 - i - j]

\* Lattice([matrix[t[0]], matrix[t[1]], matrix[t[2]]]).lengths_and_angles
PermutedLattice(l, t) ==
    GeoLattice(<<l.abc[t[1]], l.abc[t[2]], l.abc[t[3]]>>,
               <<Angle(l, t[2], t[3]), Angle(l, t[1], t[3]), Angle(l, t[1], t[2])>>)

\* the lattice with its first two rows multiplied by -1
NegatedLattice(l) ==
    GeoLattice(l.abc, <<180 - l.angles[1], 180 - l.angles[2], l.angles[3]>>)

\* sorted(..., key=length) over the axes given: a stable sort, as a list of orig_index
RECURSIVE InsertAxis(_, _, _)
InsertAxis(sorted, i, abc) ==
    IF sorted = <<>> THEN <<i>>
    ELSE IF abc[i] < abc[Head(sorted)] THEN <<i>> \o sorted
    ELSE <<Head(sorted)>> \o InsertAxis(Tail(sorted), i, abc)

RECURSIVE SortAxes(_, _, _)
SortAxes(axes, abc, acc) ==
    IF axes = <<>> THEN acc
    ELSE SortAxes(Tail(axes), abc, InsertAxis(acc, Head(axes), abc))

\* every entry looked up by its length: the first axis of that length
SortedDicByLength(abc, axes) ==
    LET dic == SortAxes(axes, abc, <<>>) IN
    [k \in 1..Len(dic) |-> CHOOSE i \in 1..3 :
        /\ abc[i] = abc[dic[k]]
        /\ \A j \in 1..(i - 1) : abc[j] # abc[dic[k]]]

SortedDic(abc, axes) == SortAxes(axes, abc, <<>>)

SortedLengths(abc, axes) ==
    LET dic == SortAxes(axes, abc, <<>>) IN [k \in 1..Len(dic) |-> abc[dic[k]]]

Zeros == <<<<0, 0, 0>>, <<0, 0, 0>>, <<0, 0, 0>>>>

\* m[r][c] = v
SetEntry(m, r, c, v) == [m EXCEPT ![r][c] = v]

\* for c in range(len(sorted_dic)): transf[c][sorted_dic[c]['orig_index']] = 1
RECURSIVE SetFromSorted(_, _, _)
SetFromSorted(m, dic, k) ==
    IF k > Len(dic) THEN m ELSE SetFromSorted(SetEntry(m, k, dic[k], 1), dic, k + 1)

\* np.dot(m, v) of a matrix and a vector
Dot(m, v) == [i \in 1..3 |-> m[i][1] * v[1] + m[i][2] * v[2] + m[i][3] * v[3]]

\* np.dot(v, m) of a vector and a matrix
DotLeft(v, m) == [j \in 1..3 |-> v[1] * m[1][j] + v[2] * m[2][j] + v[3] * m[3][j]]

\* np.dot(p, m) of two matrices
MatMul(p, m) ==
    [i \in 1..3 |-> [j \in 1..3 |->
        p[i][1] * m[1][j] + p[i][2] * m[2][j] + p[i][3] * m[3][j]]]

\* to_unit_cell=True: every coordinate brought into [0, 1)
ToUnitCell(f) == [i \in 1..3 |-> f[i] % 2]

\* PeriodicSite.is_periodic_image: the same species at coordinates that differ by
\* whole numbers
IsPeriodicImage(s, t) ==
    /\ s.species_and_occu = t.species_and_occu
    /\ ToUnitCell(s.frac_coords) = ToUnitCell(t.frac_coords)

\* the refined cell the standard-cell methods work on
RefinedCell == GetSortedStructure(oracle.refined)

\* the value of get_conventional_standard_structure: the exception it ended with or
\* "none", the branch of the dispatch, the new lattice, the matrix applied to the
\* fractional coordinates, the sites, and how the sites' coordinates were handed to
\* PeriodicSite ("fractional", or "cartesian": those of the site in the refined cell)
Conventional(err, branch, lattice, transf, sites, coords) ==
    [error |-> err, branch |-> branch, lattice |-> lattice, transf |-> transf,
     sites |-> sites, coords |-> coords]

Raised(err, branch) == Conventional(err, branch, NoLattice, Zeros, <<>>, "none")

\* PeriodicSite(s.specie, np.dot(transf, s.frac_coords), Lattice(new_matrix),
\*              to_unit_cell=True) for s in struct._sites
TransformedSites(sites, transf) ==
    [i \in 1..Len(sites) |->
        Site(sites[i].species_and_occu, ToUnitCell(Dot(transf, sites[i].frac_coords)))]

Sorted(r) == [r EXCEPT !.sites = SortSites(@, <<>>)]

(***************************************************************************)
(* get_conventional_standard_structure, branch by branch                   *)
(***************************************************************************)
\* lines 491-520
OrthorhombicBranch(struct, symbol, lattice) ==
    LET abc == struct.lattice.abc IN
    IF StartsWith(symbol, "C")
    THEN LET dic == SortedDic(abc, <<1, 2>>)
             lengths == SortedLengths(abc, <<1, 2>>)
             transf == SetFromSorted(SetEntry(Zeros, 3, 3, 1), dic, 1)
         IN  Conventional("none", lattice,
                          GeoLattice(<<lengths[1], lengths[2], abc[3]>>, <<90, 90, 90>>),
                          transf, TransformedSites(struct.sites, transf), "fractional")
    ELSE LET dic == SortedDic(abc, <<1, 2, 3>>)
             lengths == SortedLengths(abc, <<1, 2, 3>>)
             transf == SetFromSorted(Zeros, dic, 1)
         IN  Conventional("none", lattice,
                          GeoLattice(<<lengths[1], lengths[2], lengths[3]>>, <<90, 90, 90>>),
                          transf, TransformedSites(struct.sites, transf), "fractional")

\* the tetragonal transf with line 534 left out
TetragonalTransfNoSwap(dic, swap) == SetFromSorted(Zeros, dic, 1)

\* lines 525-534: transf, with rows 1 and 3 exchanged when the two largest lengths
\* are the equal ones
TetragonalTransf(dic, swap) ==
    IF swap
    THEN MatMul(<<<<0, 0, 1>>, <<0, 1, 0>>, <<1, 0, 0>>>>, SetFromSorted(Zeros, dic, 1))
    ELSE SetFromSorted(Zeros, dic, 1)

\* lines 522-545
TetragonalBranch(struct) ==
    LET abc == struct.lattice.abc
        dic == SortedDic(abc, <<1, 2, 3>>)
        lengths == SortedLengths(abc, <<1, 2, 3>>)
        swap == Abs(lengths[2] - lengths[3]) < tol
        a == IF swap THEN lengths[3] ELSE lengths[1]
        c == IF swap THEN lengths[1] ELSE lengths[3]
        transf == TetragonalTransf(dic, swap)
    IN  Conventional("none", "tetragonal", GeoLattice(<<a, a, c>>, <<90, 90, 90>>),
                     transf, TransformedSites(struct.sites, transf), "fractional")

\* twice the cosine of an angle of 60, 90 or 120 degrees
TwoCos(angle) == IF angle = 60 THEN 1 ELSE IF angle = 90 THEN 0 ELSE -1

\* 1000 * sqrt(n) for n in 0..6
Sqrt1000(n) == <<0, 1000, 1414, 1732, 2000, 2236, 2449>>[n + 1]

\* the lengths of the rows a - b, b - c, a + b + c of a cell of equal lengths
SupercellLengths(l) ==
    LET len == l.abc[1] IN
    <<(len * Sqrt1000(2 - TwoCos(l.angles[3]))) \div 1000,
      (len * Sqrt1000(2 - TwoCos(l.angles[1]))) \div 1000,
      (len * Sqrt1000(3 + TwoCos(l.angles[1]) + TwoCos(l.angles[2])
                        + TwoCos(l.angles[3]))) \div 1000>>

\* the sites of the supercell: each site and its two translates
SupercellSites(sites) == sites \o sites \o sites

\* sorted(struct.lattice.abc)
SortThree(abc) == SortedLengths(abc, <<1, 2, 3>>)

\* lines 547-579
HexagonalBranch(struct, lattice) ==
    LET abc == struct.lattice.abc
        rhombohedral_cell == /\ Abs(abc[1] - abc[2]) < hex_tol
                             /\ Abs(abc[3] - abc[2]) < hex_tol
                             /\ Abs(abc[1] - abc[3]) < hex_tol
        lengths == IF rhombohedral_cell THEN SortThree(SupercellLengths(struct.lattice))
                   ELSE SortThree(abc)
        sites == IF rhombohedral_cell THEN SupercellSites(struct.sites) ELSE struct.sites
        swap == Abs(lengths[2] - lengths[3]) < hex_tol
        a == IF swap THEN lengths[3] ELSE lengths[1]
        c == IF swap THEN lengths[1] ELSE lengths[3]
    IN  Conventional("none", lattice, GeoLattice(<<a, a, c>>, <<90, 90, 120>>),
                     Zeros, sites, "cartesian")

\* itertools.permutations(range(2), 2), axis 2 kept in place
Permutations2 == << <<1, 2, 3>>, <<2, 1, 3>> >>

\* itertools.permutations(range(3), 3)
Permutations3 ==
    << <<1, 2, 3>>, <<1, 3, 2>>, <<2, 1, 3>>, <<2, 3, 1>>, <<3, 1, 2>>, <<3, 2, 1>> >>

\* trans left as the first candidate's, whichever candidate is taken
SignedTransOfFirst(t, sign) ==
    SetEntry(SetEntry(SetEntry(Zeros, 1, 1, sign), 2, 2, sign), 3, 3, 1)

\* trans[0][t[0]] = sign; trans[1][t[1]] = sign; trans[2][t[2]] = 1
SignedTrans(t, sign) ==
    SetEntry(SetEntry(SetEntry(Zeros, 1, t[1], sign), 2, t[2], sign), 3, t[3], 1)

\* new_matrix = [[a, 0, 0], [0, b, 0], [0, c * cos(alpha), c * sin(alpha)]]
MonoclinicMatrix(landang) == GeoLattice(landang.abc, <<landang.angles[1], 90, 90>>)

\* one pass of the loop over the permutations: st holds trans, new_matrix and
\* whether new_matrix (and with it alpha) has been assigned
MonoclinicStep(st, l, t, c_setting) ==
    LET landang == PermutedLattice(l, t)
        b_lt_c == c_setting \/ landang.abc[2] < landang.abc[3]
    IN  IF landang.angles[1] > 90 /\ b_lt_c
        THEN [trans |-> SignedTrans(t, -1),
              new_matrix |-> MonoclinicMatrix(NegatedLattice(landang)), assigned |-> TRUE]
        ELSE IF landang.angles[1] < 90 /\ b_lt_c
        THEN [trans |-> SignedTrans(t, 1),
              new_matrix |-> MonoclinicMatrix(landang), assigned |-> TRUE]
        ELSE st

RECURSIVE MonoclinicLoop(_, _, _, _)
MonoclinicLoop(st, l, perms, c_setting) ==
    IF perms = <<>> THEN st
    ELSE MonoclinicLoop(MonoclinicStep(st, l, Head(perms), c_setting), l,
                        Tail(perms), c_setting)

\* lines 581-707.  With no candidate taken, the C setting reads alpha, which no
\* statement has assigned (line 642); the other settings hand new_matrix = None to
\* Lattice (line 705), whose constructor raises
MonoclinicBranch(struct, int_symbol) ==
    LET l == struct.lattice
        c_setting == StartsWith(int_symbol, "C")
        st0 == [trans |-> IF c_setting THEN SetEntry(Zeros, 3, 3, 1) ELSE Zeros,
                new_matrix |-> NoLattice, assigned |-> FALSE]
        st == MonoclinicLoop(st0, l, IF c_setting THEN Permutations2 ELSE Permutations3,
                             c_setting)
    IN  IF st.assigned
        THEN Conventional("none", "monoclinic", st.new_matrix, st.trans,
                          TransformedSites(struct.sites, st.trans), "fractional")
        ELSE IF c_setting
        THEN Raised("UnboundLocalError", "monoclinic")
        ELSE IF struct.sites = <<>>
        THEN Conventional("none", "monoclinic", NoLattice,
                          SetFromSorted(Zeros, SortedDic(l.abc, <<1, 2, 3>>), 1),
                          <<>>, "fractional")
        ELSE Raised("LatticeError", "monoclinic")

\* struct.get_reduced_structure("LLL") of a cell that is reduced already
GetReducedStructure(struct) == struct

\* lines 709-733: the sites keep their fractional coordinates, to_unit_cell=False
TriclinicBranch(struct) ==
    LET reduced == GetReducedStructure(struct) IN
    Conventional("none", "triclinic", reduced.lattice, Zeros, reduced.sites,
                 "fractional")

\* lines 483-735; lattice is get_lattice_type()
ConventionalStandard(struct, symbol, lattice) ==
    IF lattice \in {"orthorhombic", "cubic"}
    THEN Sorted(OrthorhombicBranch(struct, symbol, lattice))
    ELSE IF lattice = "tetragonal" THEN Sorted(TetragonalBranch(struct))
    ELSE IF lattice \in {"hexagonal", "rhombohedral"}
    THEN Sorted(HexagonalBranch(struct, lattice))
    ELSE IF lattice = "monoclinic"
    THEN LET r == MonoclinicBranch(struct, symbol) IN
         IF r.error = "none" THEN Sorted(r) ELSE r
    ELSE IF lattice = "triclinic" THEN Sorted(TriclinicBranch(struct))
    ELSE Raised("AttributeError", lattice)

(***************************************************************************)
(* get_primitive_standard_structure: which cell it returns.  A result is    *)
(* described by the branch taken (cell), the structure whose sites are      *)
(* mapped (sites_from) and the transformation applied to the conventional   *)
(* lattice, a matrix of numerators over the denominator den.                *)
(***************************************************************************)
Eye == [num |-> <<<<1, 0, 0>>, <<0, 1, 0>>, <<0, 0, 1>>>>, den |-> 1]

\* the transformation with the two C matrices exchanged
PrimitiveTransfSwappedC(symbol, system) ==
    IF Contains(symbol, "I")
    THEN [num |-> <<<<-1, 1, 1>>, <<1, -1, 1>>, <<1, 1, -1>>>>, den |-> 2]
    ELSE IF Contains(symbol, "F")
    THEN [num |-> <<<<0, 1, 1>>, <<1, 0, 1>>, <<1, 1, 0>>>>, den |-> 2]
    ELSE IF Contains(symbol, "C")
    THEN IF system = "monoclinic"
         THEN [num |-> <<<<1, -1, 0>>, <<1, 1, 0>>, <<0, 0, 2>>>>, den |-> 2]
         ELSE [num |-> <<<<1, 1, 0>>, <<-1, 1, 0>>, <<0, 0, 2>>>>, den |-> 2]
    ELSE Eye

\* transf as lines 440-453 set it; system is get_crystal_system()
PrimitiveTransf(symbol, system) ==
    IF Contains(symbol, "I")
    THEN [num |-> <<<<-1, 1, 1>>, <<1, -1, 1>>, <<1, 1, -1>>>>, den |-> 2]
    ELSE IF Contains(symbol, "F")
    THEN [num |-> <<<<0, 1, 1>>, <<1, 0, 1>>, <<1, 1, 0>>>>, den |-> 2]
    ELSE IF Contains(symbol, "C")
    THEN IF system = "monoclinic"
         THEN [num |-> <<<<1, 1, 0>>, <<-1, 1, 0>>, <<0, 0, 2>>>>, den |-> 2]
         ELSE [num |-> <<<<1, -1, 0>>, <<1, 1, 0>>, <<0, 0, 2>>>>, den |-> 2]
    ELSE Eye

\* lattice is get_lattice_type(); with lattice "None" no branch of
\* get_conventional_standard_structure assigns results and line 735 raises
PrimitiveStandard(symbol, lattice, system) ==
    IF lattice = "None"
    THEN [cell |-> "AttributeError", sites_from |-> "none", transf |-> Eye]
    ELSE IF Contains(symbol, "P") \/ lattice = "hexagonal"
    THEN [cell |-> "conventional", sites_from |-> "conventional", transf |-> Eye]
    ELSE IF lattice = "rhombohedral"
    THEN [cell |-> "rhombohedral", sites_from |-> "refined", transf |-> Eye]
    ELSE [cell |-> "transformed", sites_from |-> "conventional",
          transf |-> PrimitiveTransf(symbol, system)]

\* np.linalg.det of a 3x3 matrix
Det(m) ==
    m[1][1] * (m[2][2] * m[3][3] - m[2][3] * m[3][2])
    - m[1][2] * (m[2][1] * m[3][3] - m[2][3] * m[3][1])
    + m[1][3] * (m[2][1] * m[3][2] - m[2][2] * m[3][1])

\* the cofactor of entry (i, j), rows and columns taken cyclically
Cofactor(m, i, j) ==
    LET r1 == (i % 3) + 1
        r2 == ((i + 1) % 3) + 1
        c1 == (j % 3) + 1
        c2 == ((j + 1) % 3) + 1
    IN  m[r1][c1] * m[r2][c2] - m[r1][c2] * m[r2][c1]

\* the inverse of transf = num / den; its entries are whole numbers for the
\* matrices of PrimitiveTransf
Inverse(transf) ==
    [i \in 1..3 |-> [j \in 1..3 |->
        (transf.den * Cofactor(transf.num, j, i)) \div Det(transf.num)]]

\* PeriodicSite(s.specie, s.coords, Lattice(np.dot(transf, conv.lattice.matrix)),
\*              to_unit_cell=True, coords_are_cartesian=True): the cartesian
\* coordinates f . M of the site are f . inv(transf) in the lattice transf . M
PrimitiveSite(s, transf) ==
    Site(s.species_and_occu, ToUnitCell(DotLeft(s.frac_coords, Inverse(transf))))

\* the site loop with the test of line 463 left out
RECURSIVE UniqueSitesUnchecked(_, _, _, _)
UniqueSitesUnchecked(sites, k, new_sites, kept) ==
    IF k > Len(sites) THEN [sites |-> new_sites, kept |-> kept]
    ELSE UniqueSitesUnchecked(sites, k + 1, Append(new_sites, sites[k]), Append(kept, k))

\* the site loops of lines 427-437 and 454-466 over the sites new_s, from site k on:
\* new_sites, and which of the sites were appended
RECURSIVE UniqueSites(_, _, _, _)
UniqueSites(sites, k, new_sites, kept) ==
    IF k > Len(sites) THEN [sites |-> new_sites, kept |-> kept]
    ELSE IF \E i \in DOMAIN new_sites : IsPeriodicImage(sites[k], new_sites[i])
    THEN UniqueSites(sites, k + 1, new_sites, kept)
    ELSE UniqueSites(sites, k + 1, Append(new_sites, sites[k]), Append(kept, k))

\* The value of get_primitive_standard_structure: the selection of PrimitiveStandard,
\* the cell conv whose sites are mapped, the new sites, and which sites of conv they
\* are.  lattice is the new lattice of the conventional and rhombohedral cells; the
\* lattice of a transformed cell is transf applied to it.
PrimitiveCell(sel, conv, refined) ==
    IF conv.error # "none"
    THEN [cell |-> conv.error, sites_from |-> "none", transf |-> Eye, conv |-> conv,
          lattice |-> NoLattice, sites |-> <<>>, kept |-> <<>>]
    ELSE IF sel.cell = "conventional"
    THEN [cell |-> sel.cell, sites_from |-> sel.sites_from, transf |-> sel.transf,
          conv |-> conv, lattice |-> conv.lattice, sites |-> conv.sites,
          kept |-> [i \in 1..Len(conv.sites) |-> i]]
    ELSE IF sel.cell = "rhombohedral"
    THEN LET a == refined.lattice.abc[1]
             alpha == refined.lattice.angles[1]
             new_s == [i \in 1..Len(refined.sites) |->
                         Site(refined.sites[i].species_and_occu,
                              ToUnitCell(refined.sites[i].frac_coords))]
             u == UniqueSites(new_s, 1, <<>>, <<>>)
         IN  [cell |-> sel.cell, sites_from |-> sel.sites_from, transf |-> sel.transf,
              conv |-> Conventional("none", "refined", refined.lattice, Zeros,
                                    refined.sites, "fractional"),
              lattice |-> GeoLattice(<<a, a, a>>, <<alpha, alpha, alpha>>),
              sites |-> u.sites, kept |-> u.kept]
    ELSE LET new_s == [i \in 1..Len(conv.sites) |->
                         PrimitiveSite(conv.sites[i], sel.transf)]
             u == UniqueSites(new_s, 1, <<>>, <<>>)
         IN  [cell |-> sel.cell, sites_from |-> sel.sites_from, transf |-> sel.transf,
              conv |-> conv, lattice |-> conv.lattice, sites |-> u.sites,
              kept |-> u.kept]

\* The oracle calls of get_conventional_standard_structure: it refines the cell, and
\* asks for the symmetry operations (get_spacegroup) in its monoclinic branch.
\* last_call keeps the latest.
ConventionalCalls(lattice) ==
    IF lattice = "monoclinic"
    THEN \E a \in {SymmetryArgs} : \E out \in {SymmetryCall(a)} :
            AfterCall("symmetry", a, Len(out.rotation), out)
    ELSE \E a \in {RefineArgs} :
         \E out \in {SpgRefineCell(a.lattice.val, a.positions.val,
                                   a.numbers.val, NumSites(_structure),
                                   _symprec, _angle_tol, oracle)} :
            AfterCall("refine_cell", a, Len(out.positions), out)

GetConventionalStandardStructure ==
    /\ pc = "analyzed"
    /\ \E system \in CrystalSystems(get_spacegroup_number) :
       \E lattice \in {LatticeType(get_spacegroup_number, system)} :
          /\ ConventionalCalls(lattice)
          /\ ret' = [q |-> "get_conventional_standard_structure",
                     val |-> ConventionalStandard(RefinedCell, get_spacegroup_symbol,
                                                  lattice),
                     other |-> FALSE]
    /\ UNCHANGED <<structure, oracle, pc, error, snap, memo>>

\* the rhombohedral branch refines the cell once more
GetPrimitiveStandardStructure ==
    /\ pc = "analyzed"
    /\ \E system1 \in CrystalSystems(get_spacegroup_number) :
       \E system \in CrystalSystems(get_spacegroup_number) :
       \E lattice \in {LatticeType(get_spacegroup_number, system1)} :
       \E conv \in {ConventionalStandard(RefinedCell, get_spacegroup_symbol, lattice)} :
          /\ ConventionalCalls(lattice)
          /\ ret' = [q |-> "get_primitive_standard_structure",
                     val |-> PrimitiveCell(
                                PrimitiveStandard(get_spacegroup_symbol, lattice, system),
                                conv, RefinedCell),
                     other |-> FALSE]
    /\ UNCHANGED <<structure, oracle, pc, error, snap, memo>>

(***************************************************************************)
(* Initial states and specifications                                       *)
(***************************************************************************)
\* international symbols, as character sequences
P1 == <<"P", "1">>
Im3m == <<"I", "m", "-", "3", "m">>

\* the oracle builds tried on structure s: its answers to the cell searches run
\* over 0..n+1 atoms and the full capacity 4n of the refinement buffers
Seeds(s) == (0..(NumSites(s) + 1)) \cup {4 * NumSites(s)}

\* a refined cell on which every branch of the standard-cell methods runs through
OneCell ==
    [lattice |-> GeoLattice(<<1000, 2000, 2003>>, <<60, 90, 90>>),
     sites |-> <<Site("Fe", <<0, 0, 0>>)>>]

Oracles(s, sgs, kmaps) ==
    { [seed |-> sd, symbol |-> sg[1], number |-> sg[2], raises |-> r, kmap |-> km,
       refined |-> OneCell] :
        sd \in Seeds(s), sg \in sgs,
        r \in (IF NumSites(s) = 0 THEN BOOLEAN ELSE {FALSE}), km \in kmaps }

\* before __init__ runs: no session field set
NoSession ==
    /\ pc = "new"
    /\ error = "none"
    /\ _symprec = 0
    /\ _angle_tol = 0
    /\ _structure = [lattice |-> <<>>, sites |-> <<>>]
    /\ _transposed_latt = <<>>
    /\ _positions = <<>>
    /\ _numbers = <<>>
    /\ _unique_species = <<>>
    /\ _spacegroup_data = <<>>
    /\ snap = <<>>
    /\ last_call = NoCall
    /\ ret = NoResult
    /\ memo = NoResult

InitWith(structs, sgs, kmaps) ==
    /\ structure \in structs
    /\ oracle \in Oracles(structure, sgs, kmaps)
    /\ NoSession

Init == InitWith(Structures, {<<Im3m, 229>>}, {<<0, 0, 2>>})

Next ==
    \/ Construct
    \/ GetSymmetryDataset
    \/ GetSymmetry
    \/ GetSymmetryOperations
    \/ GetRefinedStructure
    \/ FindPrimitive
    \/ GetIrKpointsMapping
    \/ GetIrKpoints

Spec == Init /\ [][Next]_vars

\* international symbols of each centering
P6mmm == <<"P", "6", "/", "m", "m", "m">>
Fm3m == <<"F", "m", "-", "3", "m">>
C2m == <<"C", "2", "/", "m">>
Cmcm == <<"C", "m", "c", "m">>
R3m == <<"R", "-", "3", "m">>
Amm2 == <<"A", "m", "m", "2">>

Symbols == {P1, P6mmm, Im3m, Fm3m, C2m, Cmcm, R3m, Amm2}

\* the numbers the oracle is let answer with: 1..230 and one on either side
MaxNumber == 231

OneSite == [lattice |-> CHOOSE l \in Lattices : TRUE, sites |-> <<Site("Fe", 1)>>]

\* one structure; every symbol with every number as the oracle's answer
InitClassify ==
    /\ InitWith({OneSite}, Symbols \X (0..MaxNumber), {<<>>})
    /\ oracle.seed = 1

NextClassify ==
    \/ Construct
    \/ GetSpacegroupSymbol
    \/ GetSpacegroupNumber
    \/ GetCrystalSystem
    \/ GetLatticeType
    \/ GetConventionalStandardStructure
    \/ GetPrimitiveStandardStructure

SpecClassify == InitClassify /\ [][NextClassify]_vars

(***************************************************************************)
(* The standard cells of every refined cell the oracle may answer with      *)
(***************************************************************************)
P21c == <<"P", "2", "1", "/", "c">>
Immm == <<"I", "m", "m", "m">>
I4mmm == <<"I", "4", "/", "m", "m", "m">>

\* one space group for each branch and centering
StandardGroups ==
    {<<P1, 1>>, <<C2m, 12>>, <<P21c, 14>>, <<Amm2, 38>>, <<Cmcm, 63>>, <<Immm, 71>>,
     <<I4mmm, 139>>, <<R3m, 166>>, <<P6mmm, 191>>, <<Fm3m, 225>>, <<Im3m, 229>>}

\* axis lengths: 1000 and 1001 are equal within tol, 1001 and 1003 within hex_tol only
Lengths == {500, 1000, 1001, 1003}

RefinedLattices ==
    { GeoLattice(<<a, b, c>>, <<90, 90, 90>>) : a \in Lengths, b \in Lengths, c \in Lengths }
    \cup
    { GeoLattice(<<a, b, c>>, <<al, be, ga>>) :
        a \in {1000, 2000}, b \in {1000, 2000}, c \in {1000, 2000},
        al \in {60, 90, 120}, be \in {60, 90, 120}, ga \in {60, 90, 120} }

\* site lists: one site; a body-centered pair at two places; a body-centered cell of
\* two species; two species half a diagonal apart; a base-centered pair; three sites
\* told apart by every axis; one site listed twice, a whole lattice vector apart
RefinedSites ==
    { <<Site("Fe", <<0, 0, 0>>)>>,
      <<Site("Fe", <<0, 0, 0>>), Site("Fe", <<1, 1, 1>>)>>,
      <<Site("Fe", <<1, 0, 0>>), Site("Fe", <<0, 1, 1>>)>>,
      <<Site("O", <<1, 0, 0>>), Site("Fe", <<0, 0, 0>>), Site("O", <<0, 1, 1>>),
        Site("Fe", <<1, 1, 1>>)>>,
      <<Site("Fe", <<0, 0, 0>>), Site("O", <<1, 1, 1>>)>>,
      <<Site("Fe", <<0, 0, 0>>), Site("Fe", <<1, 1, 0>>)>>,
      <<Site("Fe", <<1, 0, 0>>), Site("Fe", <<0, 1, 0>>), Site("O", <<0, 0, 1>>)>>,
      <<Site("Fe", <<0, 0, 0>>), Site("Fe", <<2, 0, 0>>)>> }

RefinedCells == { [lattice |-> l, sites |-> ss] : l \in RefinedLattices, ss \in RefinedSites }

\* the refinement answers with as many atoms as the refined cell has sites
InitStandard ==
    /\ structure = OneSite
    /\ oracle \in { [o EXCEPT !.refined = cell, !.seed = Len(cell.sites)] :
                      o \in {x \in Oracles(OneSite, StandardGroups, {<<>>}) : x.seed = 1},
                      cell \in RefinedCells }
    /\ NoSession

NextStandard ==
    \/ Construct
    \/ GetConventionalStandardStructure
    \/ GetPrimitiveStandardStructure

SpecStandard == InitStandard /\ [][NextStandard]_vars

(***************************************************************************)
(* Properties of the session                                               *)
(***************************************************************************)
SiteSpecies(i) == structure.sites[i].species_and_occu

FirstSite(sp) == CHOOSE i \in 1..NumSites(structure) :
                    SiteSpecies(i) = sp /\ \A j \in 1..(i - 1) : SiteSpecies(j) # sp

\* C4: once __init__ has run, _unique_species lists each species of the structure
\* once, in order of first occurrence, and _numbers has one entry per site, the
\* 1-based position of the site's species in that list; the entries are exactly 1..k.
C4_SpeciesIndexing ==
    pc # "new" =>
        LET k == Cardinality({SiteSpecies(i) : i \in 1..NumSites(structure)}) IN
        /\ Len(_unique_species) = k
        /\ \A a, b \in 1..Len(_unique_species) :
              a < b => /\ _unique_species[a] # _unique_species[b]
                       /\ FirstSite(_unique_species[a]) < FirstSite(_unique_species[b])
        /\ Len(_numbers) = NumSites(structure)
        /\ \A i \in 1..NumSites(structure) :
              /\ _numbers[i] \in 1..k
              /\ _unique_species[_numbers[i]] = SiteSpecies(i)
        /\ Range(_numbers) = 1..k

\* a session over a structure in which a species comes back after another one
C4_Witness ==
    /\ pc = "analyzed"
    /\ \E i, j, l \in 1..NumSites(structure) :
          i < j /\ j < l /\ SiteSpecies(i) = SiteSpecies(l) /\ SiteSpecies(i) # SiteSpecies(j)

\* C5: __init__ on a structure without sites ends with InvalidStructureError, no
\* oracle call has been made, and no analyzed session exists for it.
C5_EmptyStructureRejected ==
    (NumSites(structure) = 0 /\ pc # "new") =>
        /\ pc = "failed"
        /\ error = "InvalidStructureError"
        /\ last_call.op = "none"

\* C6: every array handed to the oracle is a copy; none is the session's own object.
C6_OracleGetsCopies ==
    /\ last_call.lattice = "call"
    /\ last_call.positions = "call"
    /\ last_call.numbers = "call"

\* C3: find_primitive never returns an empty structure: on count 0 it returns the
\* input structure, on count k > 0 a structure of exactly k sites whose species are
\* entries of _unique_species.
C3_FindPrimitiveResult ==
    ret.q = "find_primitive" =>
        /\ NumSites(ret.val) > 0
        /\ last_call.value = 0 => ret.val = structure
        /\ last_call.value > 0 =>
              /\ NumSites(ret.val) = last_call.value
              /\ \A i \in 1..NumSites(ret.val) :
                    ret.val.sites[i].species_and_occu \in Range(_unique_species)

\* C7: on an analyzed session every field equals what __init__ left in it, and a
\* query made again returns what it returned before.
C7_SessionImmutable ==
    pc = "analyzed" =>
        /\ session = snap
        /\ (memo.q # "none" /\ ret.q = memo.q) => ret.val = memo.val

\* find_primitive, with the oracle overwriting its buffers, then another query,
\* then find_primitive again
C7_Witness ==
    /\ pc = "analyzed"
    /\ memo.q = "find_primitive"
    /\ memo.other
    /\ ret.q = "find_primitive"
    /\ last_call.op = "primitive"
    /\ last_call.value > 0

\* C9: symmetry search gets buffers of 48 * num_sites slots and refinement buffers of
\* 4 * num_sites slots whose first num_sites hold the input atoms; with the oracle
\* returning count, the arrays, the operations and the refined sites returned are
\* exactly count many, and none of them is a slot left zero.
C9_TruncatedToCount ==
    LET n == NumSites(structure)
        count == last_call.value
    IN  /\ ret.q \in {"_get_symmetry", "get_symmetry_operations"} =>
              /\ last_call.cap = 48 * n
              /\ 0 <= count /\ count <= last_call.cap
        /\ ret.q = "_get_symmetry" =>
              /\ Len(ret.val.rotation) = count
              /\ Len(ret.val.translation) = count
              /\ 0 \notin Range(ret.val.rotation) \cup Range(ret.val.translation)
        /\ ret.q = "get_symmetry_operations" =>
              /\ Len(ret.val) = count
              /\ \A i \in 1..Len(ret.val) : ret.val[i].rot # 0 /\ ret.val[i].trans # 0
        /\ ret.q = "get_refined_structure" =>
              /\ last_call.cap = 4 * n
              /\ Len(last_call.pos_in) = 4 * n /\ Len(last_call.num_in) = 4 * n
              /\ Take(last_call.pos_in, n) = _positions
              /\ Take(last_call.num_in, n) = _numbers
              /\ 0 <= count /\ count <= last_call.cap
              /\ NumSites(ret.val) = count
              /\ \A i \in 1..NumSites(ret.val) : ret.val.sites[i].frac_coords # 0

\* a refined cell of more sites than the input and fewer than the buffers hold
C9_Witness ==
    /\ ret.q = "get_refined_structure"
    /\ last_call.value > NumSites(structure)
    /\ last_call.value < last_call.cap

(***************************************************************************)
(* Every mapping the k-point search may answer with                        *)
(***************************************************************************)
\* the mappings over m k-points: each entry is the index of its class's
\* representative, and a representative represents itself
KpointMappings(m) ==
    { km \in [1..m -> 0..(m - 1)] : \A i \in 1..m : km[km[i] + 1] = km[i] }

InitKpoints ==
    /\ InitWith({OneSite}, {<<Im3m, 229>>},
                UNION { KpointMappings(m) : m \in 0..MaxKpoints })
    /\ oracle.seed = 1

NextKpoints ==
    \/ Construct
    \/ GetIrKpointsMapping
    \/ GetIrKpoints

SpecKpoints == InitKpoints /\ [][NextKpoints]_vars

(***************************************************************************)
(* Properties of the classification and of the k-point reduction           *)
(***************************************************************************)
SevenSystems == {"triclinic", "monoclinic", "orthorhombic", "tetragonal",
                 "trigonal", "hexagonal", "cubic"}

\* the crystal system of space-group number n in the international tables
TableSystem(n) ==
    IF n <= 2 THEN "triclinic"
    ELSE IF n <= 15 THEN "monoclinic"
    ELSE IF n <= 74 THEN "orthorhombic"
    ELSE IF n <= 142 THEN "tetragonal"
    ELSE IF n <= 167 THEN "trigonal"
    ELSE IF n <= 194 THEN "hexagonal"
    ELSE "cubic"

TableRhombohedral(n) == n \in {146, 148, 155, 160, 161, 166, 167}

TableLattice(n) ==
    IF TableRhombohedral(n) THEN "rhombohedral"
    ELSE IF TableSystem(n) = "trigonal" THEN "hexagonal"
    ELSE TableSystem(n)

\* C1: for the number n in 1..230 the oracle answered with, get_crystal_system
\* returns one of the seven labels, the one whose range holds n, and no order of
\* iteration over the table can make it return another.
C1_CrystalSystem ==
    (ret.q = "get_crystal_system" /\ oracle.number \in 1..230) =>
        /\ ret.val \in SevenSystems
        /\ ret.val = TableSystem(oracle.number)
        /\ CrystalSystems(get_spacegroup_number) = {ret.val}

\* the last number of the last range
C1_Witness ==
    /\ ret.q = "get_crystal_system"
    /\ oracle.number = 230
    /\ ret.val = "cubic"

\* C2: for n in 1..230, get_lattice_type returns "rhombohedral" exactly for the seven
\* rhombohedral numbers, "hexagonal" for the other numbers of 143..167, and the
\* crystal system for every other n.
C2_LatticeType ==
    (ret.q = "get_lattice_type" /\ oracle.number \in 1..230) =>
        LET n == oracle.number IN
        /\ ret.val = "rhombohedral" <=> TableRhombohedral(n)
        /\ (n \in 143..167 /\ ~TableRhombohedral(n)) => ret.val = "hexagonal"
        /\ n \notin 143..167 => ret.val = TableSystem(n)

C2_Witness ==
    /\ ret.q = "get_lattice_type"
    /\ oracle.number = 167
    /\ ret.val = "rhombohedral"

\* C10: get_primitive_standard_structure returns the conventional cell when the
\* symbol holds "P" or the lattice type is hexagonal; else the rhombohedral cell built
\* from the refined cell when the lattice type is rhombohedral; else the conventional
\* cell transformed by the I, F or C matrix of the letter the symbol holds, the C
\* matrix being the monoclinic one exactly in the monoclinic system.
C10_PrimitiveSelection ==
    (ret.q = "get_primitive_standard_structure" /\ oracle.number \in 1..230) =>
        LET symbol == oracle.symbol
            lattice == TableLattice(oracle.number)
            r == ret.val
        IN  IF Contains(symbol, "P") \/ lattice = "hexagonal"
            THEN r.cell = "conventional" /\ r.sites_from = "conventional"
            ELSE IF lattice = "rhombohedral"
            THEN r.cell = "rhombohedral" /\ r.sites_from = "refined"
            ELSE /\ r.cell = "transformed" /\ r.sites_from = "conventional"
                 /\ Contains(symbol, "I") =>
                      r.transf = [num |-> <<<<-1, 1, 1>>, <<1, -1, 1>>, <<1, 1, -1>>>>,
                                  den |-> 2]
                 /\ Contains(symbol, "F") =>
                      r.transf = [num |-> <<<<0, 1, 1>>, <<1, 0, 1>>, <<1, 1, 0>>>>,
                                  den |-> 2]
                 /\ Contains(symbol, "C") =>
                      r.transf =
                        IF TableSystem(oracle.number) = "monoclinic"
                        THEN [num |-> <<<<1, 1, 0>>, <<-1, 1, 0>>, <<0, 0, 2>>>>, den |-> 2]
                        ELSE [num |-> <<<<1, -1, 0>>, <<1, 1, 0>>, <<0, 0, 2>>>>, den |-> 2]

\* a C-centered monoclinic group
C10_Witness ==
    /\ ret.q = "get_primitive_standard_structure"
    /\ oracle.symbol = C2m
    /\ oracle.number = 12
    /\ ret.val.cell = "transformed"

\* C8: get_ir_kpoints returns one k-point for each distinct value of the mapping the
\* oracle answered with, hence as many k-points as the mapping has distinct values,
\* and no more than it was given.
C8_OnePerMappingValue ==
    ret.q = "get_ir_kpoints" =>
        /\ Len(ret.val) = Cardinality(Range(oracle.kmap))
        /\ Len(ret.val) <= Len(Kpoints)

(***************************************************************************)
(* Properties of the standard cells                                        *)
(***************************************************************************)
SevenLattices == {"orthorhombic", "cubic", "tetragonal", "hexagonal", "rhombohedral",
                  "monoclinic", "triclinic"}

\* C17: for a space-group number in 1..230, get_conventional_standard_structure
\* dispatches on one of the seven lattice types, never on "trigonal" and never on
\* none, and does not end for want of an assigned result; for a number outside
\* 1..230 there is no crystal system, no branch runs, and the final sort is called
\* on the unassigned result.
C17_DispatchAssignsResult ==
    ret.q = "get_conventional_standard_structure" =>
        IF oracle.number \in 1..230
        THEN /\ ret.val.branch \in SevenLattices
             /\ ret.val.branch = TableLattice(oracle.number)
             /\ ret.val.error # "AttributeError"
        ELSE /\ CrystalSystems(get_spacegroup_number) = {"None"}
             /\ ret.val.branch = "None"
             /\ ret.val.error = "AttributeError"

\* a trigonal space group that is not rhombohedral
C17_Witness ==
    /\ ret.q = "get_conventional_standard_structure"
    /\ oracle.number = 150
    /\ ret.val.branch = "hexagonal"
    /\ ret.val.error = "none"

\* exactly one 1 in each row and each column, 0 elsewhere
IsPermutationMatrix(m) ==
    /\ \A i, j \in 1..3 : m[i][j] \in {0, 1}
    /\ \A i \in 1..3 : Cardinality({j \in 1..3 : m[i][j] = 1}) = 1
    /\ \A j \in 1..3 : Cardinality({i \in 1..3 : m[i][j] = 1}) = 1

\* the original axis that row k of m takes
AxisOf(m, k) == CHOOSE j \in 1..3 : m[k][j] # 0

\* site i of the result lies where m takes site i of the refined cell
SitesFollow(r, m) ==
    /\ Len(r.sites) = Len(RefinedCell.sites)
    /\ \A i \in 1..Len(r.sites) : \A k \in 1..3 :
          /\ r.sites[i].species_and_occu = RefinedCell.sites[i].species_and_occu
          /\ r.sites[i].frac_coords[k] =
                ToUnitCell(RefinedCell.sites[i].frac_coords)[AxisOf(m, k)]

\* C15: in the orthorhombic/cubic branch, whatever the three axis lengths (ties
\* included), the matrix applied to the sites is a permutation matrix and the new
\* lattice is diagonal with the lengths of the axes the matrix takes: in
\* non-decreasing order when the symbol does not start with "C"; with the third axis
\* and its length in place, and the first two in non-decreasing order, when it does.
C15_OrthorhombicPermutation ==
    (ret.q = "get_conventional_standard_structure"
        /\ ret.val.branch \in {"orthorhombic", "cubic"}) =>
        LET r == ret.val
            abc == oracle.refined.lattice.abc
        IN  /\ r.error = "none"
            /\ IsPermutationMatrix(r.transf)
            /\ r.lattice.angles = <<90, 90, 90>>
            /\ \A k \in 1..3 : r.lattice.abc[k] = abc[AxisOf(r.transf, k)]
            /\ r.lattice.abc[1] <= r.lattice.abc[2]
            /\ IF StartsWith(oracle.symbol, "C")
               THEN AxisOf(r.transf, 3) = 3 /\ r.lattice.abc[3] = abc[3]
               ELSE r.lattice.abc[2] <= r.lattice.abc[3]
            /\ SitesFollow(r, r.transf)

\* two equal lengths behind a longer first axis, in a setting that is not C
C15_Witness ==
    /\ ret.q = "get_conventional_standard_structure"
    /\ ret.val.branch = "orthorhombic"
    /\ oracle.symbol = Amm2
    /\ oracle.refined.lattice.abc = <<1003, 1000, 1000>>
    /\ ret.val.transf = <<<<0, 1, 0>>, <<0, 0, 1>>, <<1, 0, 0>>>>
    /\ Len(ret.val.sites) = 3

\* axis d is the distinct one: the other two lengths are equal within the tolerance
\* and the length of d is not, to either of them
IsDistinctAxis(abc, d) ==
    /\ \A i, j \in (1..3) \ {d} : Abs(abc[i] - abc[j]) < tol
    /\ \A j \in (1..3) \ {d} : Abs(abc[d] - abc[j]) >= tol

\* C16: in the tetragonal branch, on a refined cell with two lengths equal within
\* the tolerance and one distinct length, smallest or largest, the new lattice is
\* diag(a, a, c) with a one of the two equal lengths and c the distinct one, the
\* matrix applied to the sites is a permutation matrix, and every site's third
\* coordinate is its coordinate along the original distinct axis.
C16_TetragonalUniqueAxis ==
    (ret.q = "get_conventional_standard_structure" /\ ret.val.branch = "tetragonal") =>
        LET r == ret.val
            abc == oracle.refined.lattice.abc
        IN  \A d \in 1..3 : IsDistinctAxis(abc, d) =>
              /\ r.error = "none"
              /\ r.lattice.angles = <<90, 90, 90>>
              /\ r.lattice.abc[1] = r.lattice.abc[2]
              /\ r.lattice.abc[1] \in {abc[j] : j \in (1..3) \ {d}}
              /\ r.lattice.abc[3] = abc[d]
              /\ IsPermutationMatrix(r.transf)
              /\ AxisOf(r.transf, 3) = d
              /\ SitesFollow(r, r.transf)

\* the distinct length is the smallest, on the second axis, and the two largest
\* differ by less than the tolerance
C16_Witness ==
    /\ ret.q = "get_conventional_standard_structure"
    /\ ret.val.branch = "tetragonal"
    /\ oracle.refined.lattice.abc = <<1001, 500, 1000>>
    /\ ret.val.lattice.abc = <<1001, 1001, 500>>
    /\ Len(ret.val.sites) = 3

\* the permutations of the axes a monoclinic search examines
Examined(c_setting) ==
    {t \in [1..3 -> 1..3] : /\ {t[1], t[2], t[3]} = 1..3
                            /\ c_setting => t[3] = 3}

\* the permutations it accepts on lattice l: the angle between the second and third
\* axis taken is not 90 degrees and, unless the setting is C, b < c
Candidates(l, c_setting) ==
    {t \in Examined(c_setting) :
        /\ Angle(l, t[2], t[3]) # 90
        /\ c_setting \/ l.abc[t[2]] < l.abc[t[3]]}

\* C13: in the monoclinic branch, C-centered or not, when the search accepts no
\* permutation the method still returns a cell: all angles 90 degrees, the lengths
\* those of the refined axes, the sites mapped by a permutation matrix.
C13_MonoclinicFallback ==
    (ret.q = "get_conventional_standard_structure"
        /\ ret.val.branch = "monoclinic"
        /\ Candidates(oracle.refined.lattice, StartsWith(oracle.symbol, "C")) = {}) =>
        LET r == ret.val IN
        /\ r.error = "none"
        /\ r.lattice.angles = <<90, 90, 90>>
        /\ IsPermutationMatrix(r.transf)
        /\ \A k \in 1..3 : r.lattice.abc[k] = oracle.refined.lattice.abc[AxisOf(r.transf, k)]

\* one entry of 1 or -1 in each row and each column, 0 elsewhere
IsSignedPermutation(m) ==
    /\ \A i, j \in 1..3 : m[i][j] \in {-1, 0, 1}
    /\ \A i \in 1..3 : Cardinality({j \in 1..3 : m[i][j] # 0}) = 1
    /\ \A j \in 1..3 : Cardinality({i \in 1..3 : m[i][j] # 0}) = 1

\* the cell of the accepted permutation t of lattice l: the first two axes negated
\* when the angle exceeds 90 degrees
CellOfCandidate(r, l, t) ==
    LET alpha == Angle(l, t[2], t[3])
        sign == IF alpha > 90 THEN -1 ELSE 1
    IN  /\ r.lattice.abc = <<l.abc[t[1]], l.abc[t[2]], l.abc[t[3]]>>
        /\ r.lattice.angles = <<IF alpha > 90 THEN 180 - alpha ELSE alpha, 90, 90>>
        /\ \A k \in 1..3 : \A j \in 1..3 :
              r.transf[k][j] = IF j # t[k] THEN 0 ELSE IF k = 3 THEN 1 ELSE sign

\* C14: in the monoclinic branch, when the search accepts some permutation, the
\* lattice and the matrix applied to the sites both come from one accepted
\* permutation; the matrix is a signed permutation matrix, with third row (0, 0, 1)
\* in the C setting; alpha is below 90 degrees; and b < c unless the setting is C.
C14_MonoclinicCandidate ==
    (ret.q = "get_conventional_standard_structure"
        /\ ret.val.branch = "monoclinic"
        /\ Candidates(oracle.refined.lattice, StartsWith(oracle.symbol, "C")) # {}) =>
        LET r == ret.val
            c_setting == StartsWith(oracle.symbol, "C")
        IN  /\ r.error = "none"
            /\ \E t \in Candidates(oracle.refined.lattice, c_setting) :
                  CellOfCandidate(r, oracle.refined.lattice, t)
            /\ IsSignedPermutation(r.transf)
            /\ c_setting => r.transf[3] = <<0, 0, 1>>
            /\ r.lattice.angles[1] < 90
            /\ ~c_setting => r.lattice.abc[2] < r.lattice.abc[3]
            /\ \A i \in 1..Len(r.sites) :
                  r.sites[i].frac_coords =
                     ToUnitCell(Dot(r.transf, RefinedCell.sites[i].frac_coords))

\* a cell whose only oblique angle, between the first and the third axis, exceeds 90
\* degrees: the permutation taken is not the first and its first two axes are negated
C14_Witness ==
    /\ ret.q = "get_conventional_standard_structure"
    /\ ret.val.branch = "monoclinic"
    /\ oracle.symbol = P21c
    /\ oracle.refined.lattice = GeoLattice(<<1000, 1000, 2000>>, <<90, 120, 90>>)
    /\ ret.val.lattice = GeoLattice(<<1000, 1000, 2000>>, <<60, 90, 90>>)
    /\ ret.val.transf = <<<<0, -1, 0>>, <<-1, 0, 0>>, <<0, 0, 1>>>>
    /\ Len(ret.val.sites) = 3

NoPeriodicImages(sites) ==
    \A i, j \in 1..Len(sites) : i < j => ~IsPeriodicImage(sites[i], sites[j])

\* C12: the structure get_conventional_standard_structure returns, from whichever
\* branch hands fractional coordinates to the new lattice, and the structure
\* get_primitive_standard_structure returns hold no two sites that are periodic
\* images of each other.
C12_NoPeriodicImages ==
    /\ (ret.q = "get_conventional_standard_structure"
            /\ ret.val.error = "none" /\ ret.val.coords = "fractional") =>
          NoPeriodicImages(ret.val.sites)
    /\ (ret.q = "get_primitive_standard_structure"
            /\ ret.val.conv.error = "none" /\ ret.val.conv.coords = "fractional") =>
          NoPeriodicImages(ret.val.sites)

\* t is s moved by the centering translation (1/2, 1/2, 1/2)
Centered(s, t) ==
    /\ s.species_and_occu = t.species_and_occu
    /\ ToUnitCell(t.frac_coords) =
          ToUnitCell([k \in 1..3 |-> s.frac_coords[k] + 1])

\* a body-centered cell: sites at different places, each with its centered partner
IsBodyCentered(sites) ==
    /\ NoPeriodicImages(sites)
    /\ \A i \in 1..Len(sites) : \E j \in 1..Len(sites) : Centered(sites[i], sites[j])

\* C11: when the symbol holds "I" and the conventional cell is body-centered,
\* get_primitive_standard_structure returns half the sites of the conventional cell:
\* of two conventional sites that the centering translation relates, it keeps
\* exactly one.
C11_BodyCenteredHalved ==
    (ret.q = "get_primitive_standard_structure"
        /\ Contains(oracle.symbol, "I")
        /\ ret.val.cell = "transformed"
        /\ IsBodyCentered(ret.val.conv.sites)) =>
        LET r == ret.val
            conv == r.conv.sites
        IN  /\ 2 * Len(r.sites) = Len(conv)
            /\ \A i, j \in 1..Len(conv) :
                  Centered(conv[i], conv[j]) =>
                     (i \in Range(r.kept)) # (j \in Range(r.kept))

\* the single-site body-centered cubic structure: two conventional sites, one kept
C11_Witness ==
    /\ ret.q = "get_primitive_standard_structure"
    /\ oracle.symbol = Im3m
    /\ oracle.number = 229
    /\ ret.val.cell = "transformed"
    /\ Len(ret.val.conv.sites) = 2
    /\ IsBodyCentered(ret.val.conv.sites)
    /\ Len(ret.val.sites) = 1

====
